---- MODULE Spec2Model ----
(***************************************************************************)
(* Model of gmail_ollama_filter (src/main.py): one run of the script that  *)
(* loads example mails of the AI folders, lists the inbox, asks the model  *)
(* per (email, category) whether the email resembles the category and      *)
(* relabels the email on the first match.                                  *)
(*                                                                         *)
(* Text is modelled as a sequence of one-character strings, label names as *)
(* sequences of name fragments.  The mail and model collaborators are      *)
(* nondeterministic: every call may succeed or raise.                      *)
(***************************************************************************)
EXTENDS Integers, Sequences, FiniteSets, TLC

\* ------------------------------------------------------------------ bounds
\* longest generated model response, in characters
MaxRespLen == 6
\* most messages that are examples only (carry no inbox label)
MaxExampleMsgs == 3
\* most inbox messages in the mailbox whose listing order is followed
MaxInbox == 3
\* most inbox messages in the mailboxes with two categories
MaxInboxTwoCat == 2

\* ------------------------------------------------------------------ text
Space == {" "}
Lower == <<"y", "e", "s", "n", "o", "a", "b", "d", "i", "h", "k", "l", "p", "r", "t", "w">>
Upper == <<"Y", "E", "S", "N", "O", "A", "B", "D", "I", "H", "K", "L", "P", "R", "T", "W">>
Letters == {Lower[i] : i \in 1..Len(Lower)} \cup {Upper[i] : i \in 1..Len(Upper)} \cup {"M"}

\* str.upper() on one character
UpperChar(c) ==
    IF \E i \in 1..Len(Lower) : Lower[i] = c
    THEN Upper[CHOOSE i \in 1..Len(Lower) : Lower[i] = c]
    ELSE c

\* str.upper()
ToUpper(s) == [i \in 1..Len(s) |-> UpperChar(s[i])]

RECURSIVE LStrip(_)
LStrip(s) == IF s # <<>> /\ Head(s) \in Space THEN LStrip(Tail(s)) ELSE s

RECURSIVE RStrip(_)
RStrip(s) ==
    IF s # <<>> /\ s[Len(s)] \in Space THEN RStrip(SubSeq(s, 1, Len(s) - 1)) ELSE s

\* str.strip()
Strip(s) == RStrip(LStrip(s))

\* a character matched by \w
WordChar(c) == c \in Letters \cup {"_"}

\* re.search(r'\bTOK\b', s) for a token made of word characters
ReSearchWord(tok, s) ==
    \E i \in 1..(Len(s) - Len(tok) + 1) :
        /\ SubSeq(s, i, i + Len(tok) - 1) = tok
        /\ (i = 1 \/ ~WordChar(s[i - 1]))
        /\ (i + Len(tok) - 1 = Len(s) \/ ~WordChar(s[i + Len(tok)]))

YES == <<"Y", "E", "S">>
NO == <<"N", "O">>

\* a wrong word-boundary test: substring search
SubstringDecision(content) ==
    LET processed_answer == ToUpper(Strip(content))
        has(tok) == \E i \in 1..(Len(processed_answer) - Len(tok) + 1) :
                        SubSeq(processed_answer, i, i + Len(tok) - 1) = tok
    IN  IF processed_answer = YES THEN "YES"
        ELSE IF processed_answer = NO THEN "NO"
        ELSE IF has(YES) /\ ~has(NO) THEN "YES_FALLBACK"
        ELSE IF has(NO) /\ ~has(YES) THEN "NO_FALLBACK"
        ELSE "AMBIGUOUS"

\* the decision part of ollama_check_similarity: the tier that decides
Decision(content) ==
    LET raw_answer == Strip(content)
        processed_answer == ToUpper(raw_answer)
    IN  IF processed_answer = YES THEN "YES"
        ELSE IF processed_answer = NO THEN "NO"
        ELSE IF ReSearchWord(YES, processed_answer) /\ ~ReSearchWord(NO, processed_answer)
             THEN "YES_FALLBACK"
        ELSE IF ReSearchWord(NO, processed_answer) /\ ~ReSearchWord(YES, processed_answer)
             THEN "NO_FALLBACK"
        ELSE "AMBIGUOUS"

\* the boolean ollama_check_similarity returns for a response
IsMatch(content) == Decision(content) \in {"YES", "YES_FALLBACK"}

\* ------------------------------------------------------------------ helpers
SeqsUpTo(S, n) == UNION {[1..k -> S] : k \in 0..n}
Reverse(s) == [i \in 1..Len(s) |-> s[Len(s) + 1 - i]]
Take(s, n) == SubSeq(s, 1, IF n < Len(s) THEN n ELSE Len(s))
Range(s) == {s[i] : i \in 1..Len(s)}
StartsWith(name, prefix) ==
    Len(prefix) <= Len(name) /\ SubSeq(name, 1, Len(prefix)) = prefix

\* ------------------------------------------------------------------ the mailbox
InboxLabel == [name |-> <<"INBOX">>, id |-> "INBOX"]
ReceiptsLabel == [name |-> <<"AI_AUTO_", "Receipts">>, id |-> "Label_1"]
NewslettersLabel == [name |-> <<"AI_AUTO_", "Newsletters">>, id |-> "Label_2"]
WorkLabel == [name |-> <<"Work">>, id |-> "Label_3"]

\* header and text of a raw message: one with content, one without
FullText == [subject |-> <<"H", "i">>, text |-> <<"p", "a", "y">>]
BlankText == [subject |-> <<" ">>, text |-> <<" ", " ">>]
SubjectOnly == [subject |-> <<"H", "i">>, text |-> <<>>]

Msg(labelIds, raw) == [labels |-> labelIds, subject |-> raw.subject, text |-> raw.text]

\* ------------------------------------------------------------------ config.json
\* the keyword arguments prompt_string.format is given
FormatArgs ==
    {"category_name", "example_emails_formatted_text", "new_email_sender",
     "new_email_subject", "new_email_date", "new_email_snippet", "new_email_body",
     "max_body_length_for_llm"}

FullTemplate == [given |-> TRUE, fields |-> FormatArgs]
\* a template that lacks a placeholder the prompt needs
LackingTemplate == [given |-> TRUE, fields |-> FormatArgs \ {"new_email_body"}]
\* a template that names a field format() is not given
UnknownFieldTemplate == [given |-> TRUE, fields |-> FormatArgs \cup {"new_email_to"}]
\* the option is absent (CONFIG.get returns None)
NoTemplate == [given |-> FALSE, fields |-> {}]

\* max_body_length_for_llm, the default of CONFIG.get
DefaultMaxBodyLength == 1000

NominalConfig ==
    [present |-> TRUE,
     ollama_host |-> TRUE,
     similarity_prompt_v3 |-> FullTemplate,
     inbox_label_name |-> <<"INBOX">>,
     ai_folder_prefix |-> <<"AI_AUTO_">>,
     max_examples_per_folder |-> MaxExampleMsgs,
     max_emails_to_scan_inbox |-> MaxInbox,
     max_body_length_for_llm |-> DefaultMaxBodyLength]

\* ------------------------------------------------------------------ the runs checked
ExampleKinds ==
    {Msg({l.id}, raw) : l \in {ReceiptsLabel, NewslettersLabel}, raw \in {FullText, BlankText}}

NominalLabels == <<InboxLabel, ReceiptsLabel, NewslettersLabel>>

\* mailboxes with many examples and one inbox message
StoreWorlds ==
    {[config |-> [NominalConfig EXCEPT !.max_examples_per_folder = m],
      labels |-> NominalLabels,
      messages |-> ex \o <<Msg({InboxLabel.id}, FullText)>>] :
        m \in {1, MaxExampleMsgs}, ex \in SeqsUpTo(ExampleKinds, MaxExampleMsgs)}

\* mailboxes with two categories, in either order, and a few inbox messages
TwoCategoryWorlds ==
    {[config |-> NominalConfig,
      labels |-> ls,
      messages |-> <<Msg({ReceiptsLabel.id}, FullText), Msg({NewslettersLabel.id}, SubjectOnly)>>
                   \o inbox] :
        ls \in {NominalLabels, <<NewslettersLabel, WorkLabel, ReceiptsLabel, InboxLabel>>},
        inbox \in SeqsUpTo({Msg({InboxLabel.id}, FullText),
                            Msg({InboxLabel.id, NewslettersLabel.id}, FullText)},
                           MaxInboxTwoCat)}

\* mailboxes with one category and several inbox messages
OrderWorlds ==
    {[config |-> [NominalConfig EXCEPT !.max_emails_to_scan_inbox = scan],
      labels |-> <<InboxLabel, ReceiptsLabel>>,
      messages |-> <<Msg({ReceiptsLabel.id}, FullText)>> \o inbox] :
        scan \in {2, MaxInbox},
        inbox \in SeqsUpTo({Msg({InboxLabel.id}, FullText),
                            Msg({InboxLabel.id}, BlankText),
                            Msg({InboxLabel.id, ReceiptsLabel.id}, FullText)},
                           MaxInbox)}

SmallMailbox ==
    <<Msg({ReceiptsLabel.id}, FullText), Msg({NewslettersLabel.id}, FullText),
      Msg({InboxLabel.id}, FullText)>>

\* runs with something wrong in config.json
ConfigWorlds ==
    {[config |-> c, labels |-> NominalLabels, messages |-> SmallMailbox] :
        c \in {[NominalConfig EXCEPT !.present = FALSE],
               [NominalConfig EXCEPT !.inbox_label_name = <<"Triage">>]}
              \cup {[NominalConfig EXCEPT !.ollama_host = h, !.similarity_prompt_v3 = t] :
                        h \in BOOLEAN,
                        t \in {FullTemplate, NoTemplate, LackingTemplate,
                               UnknownFieldTemplate}}}

\* accounts that lack the inbox label or the AI folders
LabelWorlds ==
    {[config |-> NominalConfig,
      labels |-> ls,
      messages |-> SelectSeq(SmallMailbox,
                             LAMBDA m : m.labels \subseteq {ls[i].id : i \in 1..Len(ls)})] :
        ls \in {<<InboxLabel, WorkLabel>>, <<ReceiptsLabel, NewslettersLabel>>, <<>>}}

Worlds == StoreWorlds \cup TwoCategoryWorlds \cup OrderWorlds \cup ConfigWorlds \cup LabelWorlds

\* ------------------------------------------------------------------ state
VARIABLES
    CONFIG,                    \* config.json as load_config reads it
    gmail_labels,              \* the account's labels, in the order labels().list returns them
    gmail_messages,            \* the account's messages, in listing order; the id is the index
    pc,                        \* where the script is
    outcome,                   \* how the script ended
    exit_status,               \* the exit status of the process, once it has ended
    fatal,                     \* the precondition the run logged as failed, "" if none
    all_labels_map,            \* main: name -> id, as a sequence of labels
    ai_folders_map,            \* the ordered dict get_ai_auto_folders builds, examples added in place
    folder_idx,                \* fetch_example_emails: the folder being loaded
    ai_folders_with_examples,  \* main: the dict fetch_example_emails returns
    inbox_listing,             \* what the inbox messages().list call returned
    inbox_list_failed,         \* the inbox messages().list call raised
    inbox_emails_list,         \* main: the candidates, in the order analyzed
    email_idx,                 \* main: position in inbox_emails_list
    cat_idx,                   \* main: position in ai_folders_with_examples
    emails_analyzed_count,
    emails_moved_count,
    mailbox_calls,             \* number of requests sent to the mail API so far
    checks,                    \* the ollama_check_similarity calls made, in order
    relabels,                  \* the messages().modify requests made, in order
    folder_errors,             \* names of the folders whose example fetch raised
    response,                  \* a model response handed to the decision rules
    decided                    \* the decision on it, "" before

vars == <<CONFIG, gmail_labels, gmail_messages, pc, outcome, exit_status, fatal,
          all_labels_map,
          ai_folders_map, folder_idx, ai_folders_with_examples, inbox_listing,
          inbox_list_failed, inbox_emails_list, email_idx, cat_idx, emails_analyzed_count,
          emails_moved_count, mailbox_calls, checks, relabels, folder_errors,
          response, decided>>

world_vars == <<CONFIG, gmail_labels>>
run_vars == <<all_labels_map, ai_folders_map, folder_idx, ai_folders_with_examples,
              inbox_listing, inbox_list_failed, inbox_emails_list, email_idx, cat_idx,
              emails_analyzed_count, emails_moved_count, checks, relabels, folder_errors>>
interp_vars == <<response, decided>>

InitRun ==
    /\ pc = "load_config"
    /\ outcome = "running"
    /\ exit_status = 0
    /\ fatal = ""
    /\ all_labels_map = <<>>
    /\ ai_folders_map = <<>>
    /\ folder_idx = 1
    /\ ai_folders_with_examples = <<>>
    /\ inbox_listing = <<>>
    /\ inbox_list_failed = FALSE
    /\ inbox_emails_list = <<>>
    /\ email_idx = 1
    /\ cat_idx = 1
    /\ emails_analyzed_count = 0
    /\ emails_moved_count = 0
    /\ mailbox_calls = 0
    /\ checks = <<>>
    /\ relabels = <<>>
    /\ folder_errors = {}

Init ==
    /\ \E w \in Worlds :
        /\ CONFIG = w.config
        /\ gmail_labels = w.labels
        /\ gmail_messages = w.messages
    /\ InitRun
    /\ response = <<>>
    /\ decided = ""

\* ------------------------------------------------------------------ how a run ends
\* exit(1) at import time, outside the try of __main__: the process exits with 1
ExitAtImport(precondition) ==
    /\ pc' = "done"
    /\ outcome' = "system_exit"
    /\ exit_status' = 1
    /\ fatal' = precondition

\* exit(1) inside main(): __main__ catches SystemExit and passes, the script ends
SwallowedExit(precondition) ==
    /\ pc' = "done"
    /\ outcome' = "system_exit"
    /\ exit_status' = 0
    /\ fatal' = precondition

\* an exception leaves main(): __main__ logs it, the script ends
UnhandledError ==
    /\ pc' = "done"
    /\ outcome' = "unhandled_error"
    /\ exit_status' = 0
    /\ UNCHANGED fatal

\* main() returns
Return ==
    /\ pc' = "done"
    /\ outcome' = "completed"
    /\ exit_status' = 0
    /\ UNCHANGED fatal

\* ------------------------------------------------------------------ start-up
load_config ==
    /\ pc = "load_config"
    /\ IF CONFIG.present
       THEN pc' = "authenticate_gmail" /\ UNCHANGED <<outcome, exit_status, fatal>>
       ELSE ExitAtImport("config.json")
    /\ UNCHANGED <<world_vars, gmail_messages, run_vars, mailbox_calls, interp_vars>>

authenticate_gmail ==
    /\ pc = "authenticate_gmail"
    /\ \E ok \in BOOLEAN :
        IF ok
        THEN pc' = "get_labels" /\ UNCHANGED <<outcome, exit_status, fatal>>
        ELSE SwallowedExit("credentials")
    /\ UNCHANGED <<world_vars, gmail_messages, run_vars, mailbox_calls, interp_vars>>

get_labels ==
    /\ pc = "get_labels"
    /\ mailbox_calls' = mailbox_calls + 1
    /\ \E ok \in BOOLEAN :
        IF ok
        THEN /\ all_labels_map' = gmail_labels
             /\ pc' = "get_ai_auto_folders"
             /\ UNCHANGED <<outcome, exit_status, fatal>>
        ELSE /\ SwallowedExit("labels")
             /\ UNCHANGED all_labels_map
    /\ UNCHANGED <<world_vars, gmail_messages, ai_folders_map, folder_idx,
                   ai_folders_with_examples, inbox_listing, inbox_list_failed,
                   inbox_emails_list, email_idx, cat_idx, emails_analyzed_count,
                   emails_moved_count, checks, relabels, folder_errors, interp_vars>>

\* the dict get_ai_auto_folders returns for a label map
AiFolders(labels, prefix) ==
    LET pick == SelectSeq(labels, LAMBDA l : StartsWith(l.name, prefix))
    IN  [i \in 1..Len(pick) |->
            [category |-> SubSeq(pick[i].name, Len(prefix) + 1, Len(pick[i].name)),
             id |-> pick[i].id,
             name |-> pick[i].name,
             examples |-> <<>>]]

get_ai_auto_folders ==
    /\ pc = "get_ai_auto_folders"
    /\ ai_folders_map' = AiFolders(all_labels_map, CONFIG.ai_folder_prefix)
    /\ folder_idx' = 1
    /\ pc' = "fetch_example_emails"
    /\ UNCHANGED <<world_vars, gmail_messages, outcome, exit_status, fatal, all_labels_map,
                   ai_folders_with_examples, inbox_listing, inbox_list_failed,
                   inbox_emails_list, email_idx, cat_idx, emails_analyzed_count,
                   emails_moved_count, mailbox_calls, checks, relabels, folder_errors,
                   interp_vars>>

\* ------------------------------------------------------------------ the extractor
RECURSIVE WordLen(_)
WordLen(s) == IF s = <<>> \/ Head(s) \in Space THEN 0 ELSE 1 + WordLen(Tail(s))

\* ' '.join(s.split())
RECURSIVE CollapseWhitespace(_)
CollapseWhitespace(s) ==
    LET t == LStrip(s)
        n == WordLen(t)
        rest == CollapseWhitespace(SubSeq(t, n + 1, Len(t)))
    IN  IF t = <<>> THEN <<>>
        ELSE IF rest = <<>> THEN SubSeq(t, 1, n)
        ELSE SubSeq(t, 1, n) \o <<" ">> \o rest

\* get_email_content, for the fields the run reads
get_email_content(msg_id) ==
    LET m == gmail_messages[msg_id]
        body_text_content == Strip(CollapseWhitespace(m.text))
        max_len == CONFIG.max_body_length_for_llm
    IN  [id |-> msg_id,
         subject |-> Strip(m.subject),
         body |-> Take(body_text_content, max_len)
                  \o (IF Len(body_text_content) > max_len THEN <<".", ".", ".">> ELSE <<>>)]

\* content["subject"] or content["body"]
HasContent(content) == content.subject # <<>> \/ content.body # <<>>

\* messages().list(labelIds=[label], q="-label:..." for each excluded, maxResults)
ListMessages(label_id, excluded, max_results) ==
    LET ids == [i \in 1..Len(gmail_messages) |-> i]
        hit == SelectSeq(ids, LAMBDA i : /\ label_id \in gmail_messages[i].labels
                                         /\ gmail_messages[i].labels \cap excluded = {})
    IN  Take(hit, max_results)

\* ------------------------------------------------------------------ the example store
\* the examples one pass of the folder loop adds before it ends or raises:
\* raise_at = 0 when list raises, k when the k-th get raises, more when none does
LoadedExamples(messages, raise_at) ==
    LET fetched == Take(messages, IF raise_at = 0 THEN 0 ELSE raise_at - 1)
        contents == [i \in 1..Len(fetched) |-> get_email_content(fetched[i])]
    IN  SelectSeq(contents, HasContent)

\* one pass of the loop of fetch_example_emails over ai_folders_map
fetch_example_folder ==
    /\ pc = "fetch_example_emails"
    /\ folder_idx <= Len(ai_folders_map)
    /\ LET folder_data == ai_folders_map[folder_idx]
           messages == ListMessages(folder_data.id, {}, CONFIG.max_examples_per_folder)
           n == Len(messages)
       IN  \E raise_at \in 0..(n + 1) :
            /\ ai_folders_map' =
                 [ai_folders_map EXCEPT ![folder_idx].examples =
                                            @ \o LoadedExamples(messages, raise_at)]
            /\ mailbox_calls' = mailbox_calls + 1 + (IF raise_at > n THEN n ELSE raise_at)
            /\ folder_errors' = IF raise_at <= n
                                THEN folder_errors \cup {folder_data.name}
                                ELSE folder_errors
    /\ folder_idx' = folder_idx + 1
    /\ UNCHANGED <<world_vars, gmail_messages, pc, outcome, exit_status, fatal, all_labels_map,
                   ai_folders_with_examples, inbox_listing, inbox_list_failed,
                   inbox_emails_list, email_idx, cat_idx, emails_analyzed_count,
                   emails_moved_count, checks, relabels, interp_vars>>

\* a filter that keeps every folder
AllFolders(folders) == folders

\* final_folders of fetch_example_emails
FinalFolders(folders) == SelectSeq(folders, LAMBDA v : v.examples # <<>>)

\* the end of fetch_example_emails
fetch_example_emails_return ==
    /\ pc = "fetch_example_emails"
    /\ folder_idx > Len(ai_folders_map)
    /\ LET final_folders == FinalFolders(ai_folders_map)
       IN  IF final_folders = <<>>
           THEN SwallowedExit("examples") /\ UNCHANGED ai_folders_with_examples
           ELSE /\ ai_folders_with_examples' = final_folders
                /\ pc' = "fetch_inbox_emails"
                /\ UNCHANGED <<outcome, exit_status, fatal>>
    /\ UNCHANGED <<world_vars, gmail_messages, all_labels_map, ai_folders_map, folder_idx,
                   inbox_listing, inbox_list_failed, inbox_emails_list, email_idx, cat_idx,
                   emails_analyzed_count, emails_moved_count, mailbox_calls, checks, relabels,
                   folder_errors, interp_vars>>

\* ------------------------------------------------------------------ the candidates
\* all_labels_map.get(name): the ids of the labels of that name
LabelIds(labels, name) == {labels[i].id : i \in {j \in 1..Len(labels) : labels[j].name = name}}

\* main: ai_auto_label_ids_to_exclude
ExcludedLabelIds(folders) == {folders[i].id : i \in 1..Len(folders)}

\* an order that follows the listing
ListingOrder(messages_meta) == messages_meta

\* messages_meta.reverse()
ProcessingOrder(messages_meta) == Reverse(messages_meta)

\* the list fetch_inbox_emails returns when the listing succeeds and the gets of
\* the messages in failed raise
FetchedEmails(messages_meta, failed) ==
    LET kept == SelectSeq(ProcessingOrder(messages_meta), LAMBDA i : i \notin failed)
        contents == [i \in 1..Len(kept) |-> get_email_content(kept[i])]
    IN  SelectSeq(contents, HasContent)

\* a listing error that ends the run like a missing label does
ExitOnListError ==
    /\ inbox_emails_list' = <<>>
    /\ SwallowedExit("inbox listing")

\* the listing raises: fetch_inbox_emails returns [] and main, given no email, returns
ReturnEmptyList ==
    /\ inbox_emails_list' = <<>>
    /\ Return

\* fetch_inbox_emails and what main does with its result
fetch_inbox_emails ==
    /\ pc = "fetch_inbox_emails"
    /\ LET inbox_label_ids == LabelIds(all_labels_map, CONFIG.inbox_label_name)
       IN  IF inbox_label_ids = {}
           THEN /\ SwallowedExit("inbox label")
                /\ UNCHANGED <<inbox_listing, inbox_list_failed, inbox_emails_list,
                               mailbox_calls>>
           ELSE \E list_ok \in BOOLEAN :
                 IF ~list_ok
                 THEN /\ inbox_list_failed' = TRUE
                      /\ mailbox_calls' = mailbox_calls + 1
                      /\ ReturnEmptyList
                      /\ UNCHANGED inbox_listing
                 ELSE LET inbox_label_id == CHOOSE id \in inbox_label_ids : TRUE
                          messages_meta ==
                              ListMessages(inbox_label_id,
                                           ExcludedLabelIds(ai_folders_with_examples),
                                           CONFIG.max_emails_to_scan_inbox)
                      IN  \E failed \in SUBSET Range(messages_meta) :
                           /\ inbox_listing' = messages_meta
                           /\ inbox_emails_list' = FetchedEmails(messages_meta, failed)
                           /\ mailbox_calls' = mailbox_calls + 1 + Len(messages_meta)
                           /\ UNCHANGED inbox_list_failed
                           /\ IF inbox_emails_list' = <<>>
                              THEN Return
                              ELSE pc' = "analyze" /\ UNCHANGED <<outcome, exit_status, fatal>>
    /\ email_idx' = 1
    /\ cat_idx' = 1
    /\ UNCHANGED <<world_vars, gmail_messages, all_labels_map, ai_folders_map, folder_idx,
                   ai_folders_with_examples, emails_analyzed_count, emails_moved_count,
                   checks, relabels, folder_errors, interp_vars>>

\* ------------------------------------------------------------------ the model call
\* what client.chat can raise, or the response lack
ChatErrors == {"ConnectionError", "ResponseError404", "MalformedResponse"}

\* the response texts the model returns in the runs checked
ChatResponses ==
    {<<" ", "y", "e", "s", " ">>,
     <<"Y", "E", "S", ".">>,
     <<"N", "O">>,
     <<"i", "t", " ", "i", "s", " ", "n", "o", ".">>,
     <<"y", "e", "s", " ", "o", "r", " ", "n", "o", "?">>,
     <<"M", "a", "y", "b", "e">>}

\* prompt_string.format(...): raises KeyError for a field it is not given
FormatRaises(template) == ~(template.fields \subseteq FormatArgs)

\* what the run logs for a decision
Verdict(decision) ==
    CASE decision \in {"YES", "YES_FALLBACK"} -> "match"
      [] decision \in {"NO", "NO_FALLBACK"} -> "nomatch"
      [] OTHER -> "ambiguous"

\* a check that does not test whether the template is there
CheckWithoutTemplateTest(failure, content) ==
    IF ~CONFIG.ollama_host THEN "no_client"
    ELSE IF FormatRaises(CONFIG.similarity_prompt_v3) THEN "format_error"
    ELSE IF failure # "none" THEN "error"
    ELSE Verdict(Decision(content))

\* ollama_check_similarity, given what client.chat does: how the check ends
CheckSimilarity(failure, content) ==
    IF ~CONFIG.ollama_host THEN "no_client"
    ELSE IF ~CONFIG.similarity_prompt_v3.given THEN "no_template"
    ELSE IF FormatRaises(CONFIG.similarity_prompt_v3) THEN "format_error"
    ELSE IF failure # "none" THEN "error"
    ELSE Verdict(Decision(content))

\* the checks in which client.chat was called
ModelCalled(result) == result \in {"error", "match", "nomatch", "ambiguous"}

\* a run that an error of the model call ends
AbortsOnError(result) == result \in {"format_error", "error"}

\* the exception leaves ollama_check_similarity and main
Aborts(result) == result = "format_error"

\* a loop that goes on to the next category after a match
NeverBreak(result) == FALSE

\* main: the category loop breaks
Breaks(result) == result = "match"

\* move_email: the labels of a message after a successful modify
Relabelled(m, target_label_id, remove_ids) ==
    [m EXCEPT !.labels = (@ \cup {target_label_id}) \ remove_ids]

\* a request that adds the target label and removes none
ModifyAddOnly(msg_id, target_label_id, remove_ids, moved) ==
    [email |-> msg_id, add |-> target_label_id, remove |-> {}, ok |-> moved]

\* move_email: the messages().modify request, and whether it succeeded
ModifyRequest(msg_id, target_label_id, remove_ids, moved) ==
    [email |-> msg_id, add |-> target_label_id, remove |-> remove_ids, ok |-> moved]

\* a counter that counts every relabel requested
CountEveryRelabel(count, moved) == count + 1

\* main: emails_moved_count after move_email returned
MovedCount(count, moved) == IF moved THEN count + 1 ELSE count

\* one pass of the category loop of main for the current email: the call of
\* ollama_check_similarity, move_email on a match, and the step to the next
\* category or email
analyze_email ==
    /\ pc = "analyze"
    /\ LET new_email_item == inbox_emails_list[email_idx]
           folder_meta == ai_folders_with_examples[cat_idx]
           remove_ids == LabelIds(all_labels_map, CONFIG.inbox_label_name)
       IN  \E failure \in ChatErrors \cup {"none"}, content \in ChatResponses,
              moved \in BOOLEAN :
            LET result == CheckSimilarity(failure, content)
                last_category == Breaks(result) \/ cat_idx = Len(ai_folders_with_examples)
            IN  /\ checks' = Append(checks, [email |-> new_email_item.id,
                                              category |-> folder_meta.category,
                                              result |-> result])
                /\ emails_analyzed_count' =
                     IF cat_idx = 1 THEN emails_analyzed_count + 1 ELSE emails_analyzed_count
                /\ IF result = "match"
                   THEN /\ relabels' = Append(relabels,
                                               ModifyRequest(new_email_item.id, folder_meta.id,
                                                             remove_ids, moved))
                        /\ mailbox_calls' = mailbox_calls + 1
                        /\ emails_moved_count' = MovedCount(emails_moved_count, moved)
                        /\ gmail_messages' =
                             IF moved
                             THEN [gmail_messages EXCEPT ![new_email_item.id] =
                                      Relabelled(@, folder_meta.id, remove_ids)]
                             ELSE gmail_messages
                   ELSE /\ moved
                        /\ UNCHANGED <<relabels, mailbox_calls, emails_moved_count,
                                       gmail_messages>>
                /\ IF Aborts(result)
                   THEN UnhandledError /\ UNCHANGED <<email_idx, cat_idx>>
                   ELSE IF ~last_category
                   THEN /\ cat_idx' = cat_idx + 1
                        /\ UNCHANGED <<pc, outcome, exit_status, fatal, email_idx>>
                   ELSE IF email_idx < Len(inbox_emails_list)
                   THEN /\ email_idx' = email_idx + 1
                        /\ cat_idx' = 1
                        /\ UNCHANGED <<pc, outcome, exit_status, fatal>>
                   ELSE Return /\ UNCHANGED <<email_idx, cat_idx>>
    /\ UNCHANGED <<world_vars, all_labels_map, ai_folders_map, folder_idx,
                   ai_folders_with_examples, inbox_listing, inbox_list_failed,
                   inbox_emails_list, folder_errors, interp_vars>>

\* ------------------------------------------------------------------ the run
Next ==
    \/ load_config
    \/ authenticate_gmail
    \/ get_labels
    \/ get_ai_auto_folders
    \/ fetch_example_folder
    \/ fetch_example_emails_return
    \/ fetch_inbox_emails
    \/ analyze_email

Spec == Init /\ [][Next]_vars

\* ------------------------------------------------------------------ the decision rules alone
RespAlphabet == {"y", "E", "S", "n", "O", " ", "."}

\* the responses of section 8 of the specification
RespYesPadded == <<" ", " ", "y", "e", "s", " ", " ">>
RespThinkNo ==
    <<"I", " ", "t", "h", "i", "n", "k", " ", "t", "h", "e", " ", "a", "n", "s", "w", "e",
      "r", " ", "i", "s", " ", "N", "O", ".">>
RespYesOrNo == <<"y", "e", "s", ".", ".", ".", " ", "o", "r", " ", "n", "o", "?">>
RespBoth ==
    <<"Y", "E", "S", " ", "a", "n", "d", " ", "N", "O", " ", "b", "o", "t", "h", " ", "a",
      "p", "p", "l", "y">>
RespEmpty == <<>>
RespMaybe == <<"M", "a", "y", "b", "e">>

Responses ==
    SeqsUpTo(RespAlphabet, MaxRespLen)
        \cup {RespYesPadded, RespThinkNo, RespYesOrNo, RespBoth, RespEmpty, RespMaybe}

InitInterp ==
    /\ CONFIG = NominalConfig
    /\ gmail_labels = NominalLabels
    /\ gmail_messages = SmallMailbox
    /\ InitRun
    /\ response \in Responses
    /\ decided = ""

\* lines 305-324 of ollama_check_similarity applied to the response
interpret ==
    /\ decided = ""
    /\ decided' = Decision(response)
    /\ UNCHANGED <<world_vars, gmail_messages, pc, outcome, exit_status, fatal, run_vars,
                   mailbox_calls, response>>

NextInterp == interpret

SpecInterp == InitInterp /\ [][NextInterp]_vars

\* ------------------------------------------------------------------ properties
StoreCategories == [i \in 1..Len(ai_folders_with_examples) |->
                        ai_folders_with_examples[i].category]
ChecksOf(email_id) == SelectSeq(checks, LAMBDA c : c.email = email_id)
CheckedEmails == {checks[i].email : i \in 1..Len(checks)}
CandidateIds == [i \in 1..Len(inbox_emails_list) |-> inbox_emails_list[i].id]
IndexIn(seq, x) == CHOOSE i \in 1..Len(seq) : seq[i] = x

\* C1: the checks made for an email go through the categories of the store in
\* its order, one check per category, and only the last of them can be a
\* match: no check is made for a category after the first matching one; the
\* relabel requested for the email names the folder of that matching category.
C1_FirstMatchWins ==
    /\ \A e \in CheckedEmails :
        LET cs == ChecksOf(e)
        IN  /\ Len(cs) <= Len(StoreCategories)
            /\ \A k \in 1..Len(cs) :
                /\ cs[k].category = StoreCategories[k]
                /\ k < Len(cs) => cs[k].result # "match"
    /\ \A i \in 1..Len(relabels) :
        LET cs == ChecksOf(relabels[i].email)
        IN  /\ cs[Len(cs)].result = "match"
            /\ relabels[i].add = ai_folders_with_examples[Len(cs)].id

\* a run in which an email matched the first of two categories and a later
\* email was checked
C1_Witness ==
    /\ Len(ai_folders_with_examples) = 2
    /\ Len(checks) >= 2
    /\ checks[1].result = "match"
    /\ checks[2].email # checks[1].email
    /\ pc = "done"

\* the standalone words of a text: its maximal runs of word characters
RECURSIVE Words(_)
Words(s) ==
    IF s = <<>> THEN {}
    ELSE IF ~WordChar(Head(s)) THEN Words(Tail(s))
    ELSE LET n == CHOOSE k \in 1..Len(s) :
                    /\ \A j \in 1..k : WordChar(s[j])
                    /\ (k = Len(s) \/ ~WordChar(s[k + 1]))
         IN  {SubSeq(s, 1, n)} \cup Words(SubSeq(s, n + 1, Len(s)))

\* the decision the three rules give for a response
RuleDecision(r) ==
    LET u == ToUpper(Strip(r))
    IN  IF u = <<"Y", "E", "S">> THEN "YES"
        ELSE IF u = <<"N", "O">> THEN "NO"
        ELSE IF <<"Y", "E", "S">> \in Words(u) /\ <<"N", "O">> \notin Words(u)
             THEN "YES_FALLBACK"
        ELSE IF <<"N", "O">> \in Words(u) /\ <<"Y", "E", "S">> \notin Words(u)
             THEN "NO_FALLBACK"
        ELSE "AMBIGUOUS"

\* C2: the decision on a response is the one the three rules give, first rule
\* winning: exact YES or NO after trimming and uppercasing, else the one
\* standalone token present, else no-match; the responses named in the
\* specification get the decisions it names.
C2_DecisionRules ==
    decided # "" =>
        /\ decided = RuleDecision(response)
        /\ response = RespYesPadded => decided = "YES"
        /\ response = RespThinkNo => decided = "NO_FALLBACK"
        /\ response \in {RespYesOrNo, RespBoth, RespEmpty, RespMaybe} => decided = "AMBIGUOUS"

\* a response decided by the fallback rule
C2_Witness ==
    /\ response = RespThinkNo
    /\ decided = "NO_FALLBACK"

\* the place of a check in the loops of main
EmailPos(i) == IndexIn(CandidateIds, checks[i].email)
CategoryPos(i) == IndexIn(StoreCategories, checks[i].category)
LastPair(i) ==
    /\ EmailPos(i) = Len(inbox_emails_list)
    /\ CategoryPos(i) = Len(ai_folders_with_examples)

\* C3: a check whose model call failed counts as no-match for that category
\* only: no relabel into that category follows for the email, and the run goes
\* on with the next category of the same email, or with the first category of
\* the next email after the last category; after the last pair the run ends
\* normally.
C3_FailureIsNoMatch ==
    \A i \in 1..Len(checks) :
        checks[i].result = "error" =>
            LET e == EmailPos(i)
                c == CategoryPos(i)
                next_e == IF c < Len(ai_folders_with_examples) THEN e ELSE e + 1
                next_c == IF c < Len(ai_folders_with_examples) THEN c + 1 ELSE 1
            IN  /\ \A j \in 1..Len(relabels) :
                    ~(relabels[j].email = checks[i].email
                      /\ relabels[j].add = ai_folders_with_examples[c].id)
                /\ outcome # "unhandled_error"
                /\ IF LastPair(i)
                   THEN i = Len(checks) /\ pc = "done" /\ outcome = "completed"
                   ELSE IF i = Len(checks)
                   THEN pc = "analyze" /\ email_idx = next_e /\ cat_idx = next_c
                   ELSE EmailPos(i + 1) = next_e /\ CategoryPos(i + 1) = next_c

\* a run of two emails and two categories whose first model call failed, in
\* which the second category then matched and the second email was checked
C3_Witness ==
    /\ pc = "done"
    /\ Len(ai_folders_with_examples) = 2
    /\ Len(inbox_emails_list) = 2
    /\ Len(checks) >= 3
    /\ checks[1].result = "error"
    /\ checks[2].email = checks[1].email
    /\ checks[2].result = "match"
    /\ checks[3].email # checks[1].email

\* C4: a run that ended on a fatal condition (config.json missing, no example
\* folder with valid examples, inbox label not found) ended with a non-zero
\* exit status.
C4_FatalExitsNonZero ==
    (pc = "done" /\ fatal \in {"config.json", "examples", "inbox label"}) => exit_status # 0

\* the template errors: the option is absent, or a placeholder is lacking
TemplateMissing == ~CONFIG.similarity_prompt_v3.given
TemplateLacksPlaceholder ==
    /\ CONFIG.similarity_prompt_v3.given
    /\ ~(FormatArgs \subseteq CONFIG.similarity_prompt_v3.fields)
AnyModelCall == \E i \in 1..Len(checks) : ModelCalled(checks[i].result)

C6_ListFailureIsFatal ==
    (inbox_list_failed /\ pc = "done") => outcome \in {"system_exit", "unhandled_error"}

\* C6, amended: a run whose inbox listing call failed classifies no email and
\* ends as a run whose listing returned no candidate does: with an empty
\* candidate list, normally and with exit status 0.
C6_ListFailureEndsLikeEmpty ==
    inbox_list_failed =>
        /\ pc = "done"
        /\ outcome = "completed"
        /\ exit_status = 0
        /\ fatal = ""
        /\ inbox_emails_list = <<>>
        /\ checks = <<>>
        /\ relabels = <<>>
        /\ emails_analyzed_count = 0

\* a run whose inbox listing call failed
C6_Witness ==
    /\ inbox_list_failed
    /\ pc = "done"
    /\ ai_folders_with_examples # <<>>

\* the ids of the folders whose name starts with the prefix
CategoryFolderIds ==
    LET folders == AiFolders(gmail_labels, CONFIG.ai_folder_prefix)
    IN  {folders[i].id : i \in 1..Len(folders)}

\* C7: no candidate carries the label of a category folder when it is
\* selected, whether or not the folder has examples.
C7_NoLabelledCandidate ==
    relabels = <<>> =>
        \A i \in 1..Len(inbox_emails_list) :
            gmail_messages[inbox_emails_list[i].id].labels \cap CategoryFolderIds = {}

LoadDone ==
    pc \in {"fetch_inbox_emails", "analyze"} \/ (pc = "done" /\ fatal \in {"", "inbox label"})

ValidExamples(label_id) ==
    Cardinality({i \in 1..Len(gmail_messages) :
                    /\ label_id \in gmail_messages[i].labels
                    /\ (Strip(gmail_messages[i].subject) # <<>>
                        \/ Strip(gmail_messages[i].text) # <<>>)})

\* C8: once the examples are loaded, a folder left with no example is no
\* category of the store, no check is made for it and no relabel adds its
\* label; with 3 valid examples in AI_AUTO_Receipts, all of them loaded, and
\* none in AI_AUTO_Newsletters, the store holds exactly the category Receipts.
C8_EmptyCategoryLeftOut ==
    LoadDone =>
        /\ \A k \in 1..Len(ai_folders_map) :
            ai_folders_map[k].examples = <<>> =>
                /\ ai_folders_map[k].category \notin Range(StoreCategories)
                /\ \A i \in 1..Len(checks) : checks[i].category # ai_folders_map[k].category
                /\ \A j \in 1..Len(relabels) : relabels[j].add # ai_folders_map[k].id
        /\ \A k \in 1..Len(ai_folders_with_examples) :
            ai_folders_with_examples[k].examples # <<>>
        /\ (/\ \E k \in 1..Len(ai_folders_map) :
                /\ ai_folders_map[k].name = <<"AI_AUTO_", "Receipts">>
                /\ Len(ai_folders_map[k].examples) = 3
            /\ ValidExamples(NewslettersLabel.id) = 0
            /\ \E k \in 1..Len(ai_folders_map) :
                ai_folders_map[k].name = <<"AI_AUTO_", "Newsletters">>)
           => StoreCategories = << <<"Receipts">> >>

\* a finished run with 3 examples loaded for Receipts and none for
\* Newsletters, in which an email was checked
C8_Witness ==
    /\ pc = "done"
    /\ checks # <<>>
    /\ \E k \in 1..Len(ai_folders_map) :
        /\ ai_folders_map[k].name = <<"AI_AUTO_", "Receipts">>
        /\ Len(ai_folders_map[k].examples) = 3
    /\ \E k \in 1..Len(ai_folders_map) :
        /\ ai_folders_map[k].name = <<"AI_AUTO_", "Newsletters">>
        /\ ai_folders_map[k].examples = <<>>
    /\ StoreCategories = << <<"Receipts">> >>

\* C9: the candidates are in the reverse of the order of the listing, whatever
\* was dropped, and the checks follow the order of the candidates.
C9_NewestFirst ==
    /\ \A i \in 1..Len(CandidateIds) :
        /\ CandidateIds[i] \in Range(inbox_listing)
        /\ \A j \in 1..Len(CandidateIds) :
            i < j => IndexIn(inbox_listing, CandidateIds[i]) > IndexIn(inbox_listing, CandidateIds[j])
    /\ \A i \in 1..Len(checks) :
        /\ checks[i].email \in Range(CandidateIds)
        /\ i < Len(checks) => EmailPos(i) <= EmailPos(i + 1)
    /\ pc = "done" /\ outcome = "completed" =>
        CheckedEmails = Range(CandidateIds)

\* a finished run whose listing returned three messages, the middle one
\* dropped, the other two checked last-listed first
C9_Witness ==
    /\ pc = "done"
    /\ Len(inbox_listing) = 3
    /\ CandidateIds = <<inbox_listing[3], inbox_listing[1]>>
    /\ checks[1].email = inbox_listing[3]
    /\ checks[Len(checks)].email = inbox_listing[1]

\* C10: a folder whose example fetch raised is no category of the store.
C10_FailedFolderSkipped ==
    LoadDone =>
        \A k \in 1..Len(ai_folders_map) :
            ai_folders_map[k].name \in folder_errors =>
                ai_folders_map[k].category \notin Range(StoreCategories)

MatchedChecks == {i \in 1..Len(checks) : checks[i].result = "match"}
RelabelsOf(email_id) == {j \in 1..Len(relabels) : relabels[j].email = email_id}

\* C11: the moved counter is the number of relabels that succeeded; an email
\* whose relabel failed still has its match as the last check made for it and
\* exactly one relabel request, and the run goes on with the first category of
\* the next email, or ends normally after the last email; at every point
\* moved <= matched <= analyzed.
C11_FailedRelabelKeepsMatch ==
    /\ emails_moved_count = Cardinality({j \in 1..Len(relabels) : relabels[j].ok})
    /\ emails_moved_count <= Cardinality(MatchedChecks)
    /\ Cardinality(MatchedChecks) <= emails_analyzed_count
    /\ emails_analyzed_count = Cardinality(CheckedEmails)
    /\ \A i \in MatchedChecks :
        LET e == EmailPos(i)
        IN  /\ Cardinality(RelabelsOf(checks[i].email)) = 1
            /\ \A k \in 1..Len(checks) : checks[k].email = checks[i].email => k <= i
            /\ IF e = Len(inbox_emails_list)
               THEN i = Len(checks) /\ pc = "done" /\ outcome = "completed"
               ELSE IF i = Len(checks)
               THEN pc = "analyze" /\ email_idx = e + 1 /\ cat_idx = 1
               ELSE EmailPos(i + 1) = e + 1 /\ CategoryPos(i + 1) = 1

\* a finished run of two emails and two categories in which the relabel of the
\* first email, matched on the first category, failed and the second email
\* was matched and moved
C11_Witness ==
    /\ pc = "done"
    /\ Len(ai_folders_with_examples) = 2
    /\ Len(relabels) = 2
    /\ ~relabels[1].ok
    /\ relabels[2].ok
    /\ checks[1].result = "match"
    /\ emails_moved_count = 1
    /\ emails_analyzed_count = 2

LastCheck(cs) == cs[Len(cs)]
InboxLabelIds ==
    {gmail_labels[i].id : i \in {k \in 1..Len(gmail_labels) :
                                    gmail_labels[k].name = CONFIG.inbox_label_name}}

\* C12: a step requests a relabel only together with a check of the same
\* email that ended as a match, one request per step and at most one per
\* email; the request adds the id of the folder named prefix + category of
\* that check and removes the configured inbox label; a check that ended as
\* anything but a match (no match, ambiguous, failed call) requests none, and
\* the labels of a message change only by a relabel that succeeded.
C12_RelabelOnlyOnMatch ==
    [][/\ relabels' # relabels =>
            /\ Len(relabels') = Len(relabels) + 1
            /\ SubSeq(relabels', 1, Len(relabels)) = relabels
            /\ Len(checks') = Len(checks) + 1
            /\ LET r == relabels'[Len(relabels')]
                   c == LastCheck(checks')
               IN  /\ c.result = "match"
                   /\ c.email = r.email
                   /\ RelabelsOf(r.email) = {}
                   /\ \E i \in 1..Len(gmail_labels) :
                        /\ gmail_labels[i].name = CONFIG.ai_folder_prefix \o c.category
                        /\ gmail_labels[i].id = r.add
                   /\ r.remove = InboxLabelIds
                   /\ r.remove # {}
                   /\ gmail_messages' =
                        IF r.ok
                        THEN [gmail_messages EXCEPT ![r.email].labels =
                                                        (@ \cup {r.add}) \ r.remove]
                        ELSE gmail_messages
       /\ (checks' # checks /\ LastCheck(checks').result # "match") => relabels' = relabels
       /\ relabels' = relabels => gmail_messages' = gmail_messages]_vars

\* a finished run in which one email, after a failed call, was matched and
\* moved out of the inbox into the folder, and another email, whose checks
\* ended ambiguous, was not relabeled
C12_Witness ==
    /\ pc = "done"
    /\ Len(relabels) = 1
    /\ relabels[1].ok
    /\ relabels[1].add \in gmail_messages[relabels[1].email].labels
    /\ InboxLabel.id \notin gmail_messages[relabels[1].email].labels
    /\ \E i \in 1..Len(checks) :
        checks[i].email = relabels[1].email /\ checks[i].result = "error"
    /\ \E e \in CheckedEmails :
        /\ RelabelsOf(e) = {}
        /\ \A i \in 1..Len(checks) : checks[i].email = e => checks[i].result = "ambiguous"

====
